---- MODULE Spec2Model ----
(***************************************************************************)
(* Range-minimum-query structures of src/approaches: Naive, SRD (square-   *)
(* root decomposition), SegmentTree and SparseTable.  One instance is      *)
(* constructed from an input and then driven by update/query calls.        *)
(*                                                                         *)
(* Python lists are functions over 0..n-1 (the source indexes from 0).     *)
(* Floats are modelled by the integers 0..MaxVal, float("inf") by Inf.     *)
(* Arguments carry their Python type so that the isinstance checks can be  *)
(* modelled: [type |-> "int" | "float" | "str" | "list", val |-> ...].     *)
(***************************************************************************)
EXTENDS Integers, Sequences, FiniteSets, TLC

\* ---------------------------------------------------------------- bounds
MaxLen == 4
MaxVal == 1

\* float("inf"): larger than every modelled element
Inf == 1000

Values == 0..MaxVal

\* ------------------------------------------------------- Python helpers
EmptyList == [i \in {} |-> 0]

PyLen(list) == Cardinality(DOMAIN list)

\* min(a, b) of Python: the first of the smallest
PyMin(a, b) == IF b < a THEN b ELSE a

Pow2(j) == 2 ^ j

IntArg(v) == [type |-> "int", val |-> v]
FloatArg(v) == [type |-> "float", val |-> v]
StrArg == [type |-> "str", val |-> 0]
ListArg(list) == [type |-> "list", val |-> list]

\* the value a call returns: <<v>>, or <<>> when it raised
NoValue == <<>>
Returned(v) == <<v>>

\* the result of a call: what it raised ("ok" when nothing), the instance
\* after the call, and the value returned
Raise(exc, self) == [outcome |-> exc, obj |-> self, value |-> NoValue]
Done(self, value) == [outcome |-> "ok", obj |-> self, value |-> value]

\* no instance (before construction, or when __init__ raised)
NoObject ==
    [kind |-> "none", array |-> EmptyList, n |-> 0, block_size |-> 0,
     feed |-> EmptyList, tree |-> EmptyList, lt |-> EmptyList, st |-> EmptyList]

\* ---------------------------------------------------------------- Naive
Naive_init(array) ==
    IF array.type # "list" THEN Raise("TypeError", NoObject)
    ELSE IF PyLen(array.val) = 0 THEN Raise("ValueError", NoObject)
    ELSE Done([NoObject EXCEPT !.kind = "Naive", !.array = array.val], NoValue)

Naive_update_check(self, index, new_value) ==
    IF index.type # "int" THEN "TypeError"
    ELSE IF new_value.type # "float" THEN "TypeError"
    ELSE IF ~(0 <= index.val /\ index.val < PyLen(self.array)) THEN "IndexError"
    ELSE "ok"

\* mutant: the element before the index is overwritten (array[index - 1],
\* which for index 0 is the last element)
Naive_update_off_by_one(self, index, new_value) ==
    LET chk == Naive_update_check(self, index, new_value) IN
    IF chk # "ok" THEN Raise(chk, self)
    ELSE Done([self EXCEPT
                 !.array[(index.val - 1) % PyLen(self.array)] = new_value.val],
              NoValue)

\* mutant: the element is stored before the value's type is checked
Naive_update_store_first(self, index, new_value) ==
    IF index.type # "int" THEN Raise("TypeError", self)
    ELSE IF ~(0 <= index.val /\ index.val < PyLen(self.array))
    THEN Raise("IndexError", self)
    ELSE IF new_value.type # "float"
    THEN Raise("TypeError", [self EXCEPT !.array[index.val] = new_value.val])
    ELSE Done([self EXCEPT !.array[index.val] = new_value.val], NoValue)

Naive_update(self, index, new_value) ==
    LET chk == Naive_update_check(self, index, new_value) IN
    IF chk # "ok" THEN Raise(chk, self)
    ELSE Done([self EXCEPT !.array[index.val] = new_value.val], NoValue)

Naive_query_check(self, left, right) ==
    IF ~(left.type = "int" /\ right.type = "int") THEN "TypeError"
    ELSE IF ~(0 <= left.val /\ left.val < PyLen(self.array))
            \/ ~(0 <= right.val /\ right.val < PyLen(self.array)) THEN "IndexError"
    ELSE IF left.val > right.val THEN "ValueError"
    ELSE "ok"

\* for i in range(left, right + 1): keep the running minimum
RECURSIVE Naive_scan(_, _, _, _)
Naive_scan(array, i, stop, current_min) ==
    IF i >= stop THEN current_min
    ELSE Naive_scan(array, i + 1, stop,
                    IF array[i] < current_min THEN array[i] ELSE current_min)

\* mutant: scans range(left, right), leaving the right bound out
Naive_query_exclusive(self, left, right) ==
    LET chk == Naive_query_check(self, left, right) IN
    IF chk # "ok" THEN Raise(chk, self)
    ELSE Done(self, Returned(Naive_scan(self.array, left.val, right.val, Inf)))

Naive_query(self, left, right) ==
    LET chk == Naive_query_check(self, left, right) IN
    IF chk # "ok" THEN Raise(chk, self)
    ELSE Done(self, Returned(Naive_scan(self.array, left.val, right.val + 1, Inf)))

\* ------------------------------------------------------------------ SRD
\* ceil(sqrt(n)) for n >= 1
CeilSqrt(n) == CHOOSE k \in 1..n : k * k >= n /\ (k - 1) * (k - 1) < n

\* ceil(n / d) for n >= 1, d >= 1
CeilDiv(n, d) == (n + d - 1) \div d

\* for index in range(n): feed[index // block_size] = min(feed[..], array[index])
RECURSIVE SRD_precompute(_, _, _, _, _)
SRD_precompute(feed, array, block_size, index, n) ==
    IF index >= n THEN feed
    ELSE SRD_precompute(
             [feed EXCEPT ![index \div block_size] = PyMin(@, array[index])],
             array, block_size, index + 1, n)

SRD_init(array) ==
    IF array.type # "list" THEN Raise("TypeError", NoObject)
    ELSE IF PyLen(array.val) = 0 THEN Raise("ValueError", NoObject)
    ELSE LET n == PyLen(array.val)
             block_size == CeilSqrt(n)
             feed == [b \in 0..(CeilDiv(n, block_size) - 1) |-> Inf]
         IN Done([NoObject EXCEPT
                    !.kind = "SRD", !.array = array.val, !.n = n,
                    !.block_size = block_size,
                    !.feed = SRD_precompute(feed, array.val, block_size, 0, n)],
                 NoValue)

SRD_update_check(self, index, new_value) ==
    IF index.type # "int" THEN "TypeError"
    ELSE IF new_value.type # "float" THEN "TypeError"
    ELSE IF ~(0 <= index.val /\ index.val < PyLen(self.array)) THEN "IndexError"
    ELSE "ok"

\* mutant: the block minimum is left as it was
SRD_update_stale_feed(self, index, new_value) ==
    LET chk == SRD_update_check(self, index, new_value) IN
    IF chk # "ok" THEN Raise(chk, self)
    ELSE Done([self EXCEPT !.array[index.val] = new_value.val], NoValue)

\* array[index] = new_value; feed[block_idx] = min(feed[block_idx], new_value)
SRD_update(self, index, new_value) ==
    LET chk == SRD_update_check(self, index, new_value) IN
    IF chk # "ok" THEN Raise(chk, self)
    ELSE LET block_idx == index.val \div self.block_size IN
         Done([self EXCEPT
                 !.array[index.val] = new_value.val,
                 !.feed[block_idx] = PyMin(@, new_value.val)],
              NoValue)

\* mutant: the left > right check is missing
SRD_query_check_unordered(self, left, right) ==
    IF ~(left.type = "int" /\ right.type = "int") THEN "TypeError"
    ELSE IF ~(0 <= left.val /\ left.val < PyLen(self.array))
            \/ ~(0 <= right.val /\ right.val < PyLen(self.array)) THEN "IndexError"
    ELSE "ok"

SRD_query_check(self, left, right) ==
    IF ~(left.type = "int" /\ right.type = "int") THEN "TypeError"
    ELSE IF ~(0 <= left.val /\ left.val < PyLen(self.array))
            \/ ~(0 <= right.val /\ right.val < PyLen(self.array)) THEN "IndexError"
    ELSE IF left.val > right.val THEN "ValueError"
    ELSE "ok"

\* third range: while left <= right
RECURSIVE SRD_tail(_, _, _, _)
SRD_tail(self, left, right, current_min) ==
    IF left <= right
    THEN SRD_tail(self, left + 1, right, PyMin(current_min, self.array[left]))
    ELSE current_min

\* mutant: takes the block's stored minimum as soon as the block ends at right
SRD_full_block_inclusive(self, left, right) == left + self.block_size - 1 <= right

\* whether the second loop takes the block starting at left
SRD_full_block(self, left, right) == left + self.block_size <= right

\* second range: while left + block_size <= right
RECURSIVE SRD_blocks(_, _, _, _)
SRD_blocks(self, left, right, current_min) ==
    IF SRD_full_block(self, left, right)
    THEN SRD_blocks(self, left + self.block_size, right,
                    PyMin(current_min, self.feed[left \div self.block_size]))
    ELSE SRD_tail(self, left, right, current_min)

\* first range: while left < right and left % block_size != 0
RECURSIVE SRD_head(_, _, _, _)
SRD_head(self, left, right, current_min) ==
    IF left < right /\ left % self.block_size # 0
    THEN SRD_head(self, left + 1, right, PyMin(current_min, self.array[left]))
    ELSE SRD_blocks(self, left, right, current_min)

SRD_query(self, left, right) ==
    LET chk == SRD_query_check(self, left, right) IN
    IF chk # "ok" THEN Raise(chk, self)
    ELSE Done(self, Returned(SRD_head(self, left.val, right.val, Inf)))

\* ---------------------------------------------------------- SegmentTree
RECURSIVE SegmentTree_construct_tree_recursive(_, _, _, _, _)
SegmentTree_construct_tree_recursive(tree, array, node, start, end) ==
    IF start = end THEN [tree EXCEPT ![node] = array[start]]
    ELSE LET mid == (start + end) \div 2
             t1 == SegmentTree_construct_tree_recursive(tree, array, 2 * node + 1, start, mid)
             t2 == SegmentTree_construct_tree_recursive(t1, array, 2 * node + 2, mid + 1, end)
         IN [t2 EXCEPT ![node] = PyMin(t2[2 * node + 1], t2[2 * node + 2])]

\* the tree indexes _construct_tree_recursive(node, start, end) stores into
\* or reads
RECURSIVE SegmentTree_construct_accesses(_, _, _)
SegmentTree_construct_accesses(node, start, end) ==
    IF start = end THEN {node}
    ELSE LET mid == (start + end) \div 2 IN
         SegmentTree_construct_accesses(2 * node + 1, start, mid)
             \cup SegmentTree_construct_accesses(2 * node + 2, mid + 1, end)
             \cup {node, 2 * node + 1, 2 * node + 2}

\* mutant: one tree slot per element
SegmentTree_alloc_n(n) == n

\* the number of tree slots allocated: [float("inf")] * (4 * self.n)
SegmentTree_alloc(n) == 4 * n

\* a store self.tree[node] = ... beyond the allocated list raises IndexError
SegmentTree_init(array) ==
    IF array.type # "list" THEN Raise("TypeError", NoObject)
    ELSE IF PyLen(array.val) = 0 THEN Raise("ValueError", NoObject)
    ELSE LET n == PyLen(array.val)
             tree == [k \in 0..(SegmentTree_alloc(n) - 1) |-> Inf]
         IN IF ~(SegmentTree_construct_accesses(0, 0, n - 1) \subseteq DOMAIN tree)
            THEN Raise("IndexError", NoObject)
            ELSE Done([NoObject EXCEPT
                    !.kind = "SegmentTree", !.array = array.val, !.n = n,
                    !.tree = SegmentTree_construct_tree_recursive(tree, array.val, 0, 0, n - 1)],
                 NoValue)

SegmentTree_update_check(self, index, new_value) ==
    IF index.type # "int" THEN "TypeError"
    ELSE IF new_value.type # "float" THEN "TypeError"
    ELSE IF ~(0 <= index.val /\ index.val < PyLen(self.array)) THEN "IndexError"
    ELSE "ok"

\* mutant: the ancestors are not recomputed
SegmentTree_pull_skipped(tree, node) == tree

\* mutant: the parent takes the value of its left child only
SegmentTree_pull_left_only(tree, node) ==
    [tree EXCEPT ![node] = tree[2 * node + 1]]

\* the parent after the recursion on a child: min of the two children
SegmentTree_pull(tree, node) ==
    [tree EXCEPT ![node] = PyMin(tree[2 * node + 1], tree[2 * node + 2])]

\* mutant: the middle index is looked for in the right child
RECURSIVE SegmentTree_update_recursive_strict(_, _, _, _, _, _)
SegmentTree_update_recursive_strict(self, node, start, end, index, new_value) ==
    IF start = end
    THEN [self EXCEPT !.array[index] = new_value, !.tree[node] = new_value]
    ELSE LET mid == (start + end) \div 2
             sub == IF index < mid
                    THEN SegmentTree_update_recursive_strict(self, 2 * node + 1, start, mid,
                                                             index, new_value)
                    ELSE SegmentTree_update_recursive_strict(self, 2 * node + 2, mid + 1, end,
                                                             index, new_value)
         IN [sub EXCEPT !.tree = SegmentTree_pull(sub.tree, node)]

RECURSIVE SegmentTree_update_recursive(_, _, _, _, _, _)
SegmentTree_update_recursive(self, node, start, end, index, new_value) ==
    IF start = end
    THEN [self EXCEPT !.array[index] = new_value, !.tree[node] = new_value]
    ELSE LET mid == (start + end) \div 2
             sub == IF index <= mid
                    THEN SegmentTree_update_recursive(self, 2 * node + 1, start, mid,
                                                      index, new_value)
                    ELSE SegmentTree_update_recursive(self, 2 * node + 2, mid + 1, end,
                                                      index, new_value)
         IN [sub EXCEPT !.tree = SegmentTree_pull(sub.tree, node)]

\* the tree indexes _update_recursive(node, start, end, index, ...) stores
\* into or reads
RECURSIVE SegmentTree_update_accesses(_, _, _, _)
SegmentTree_update_accesses(node, start, end, index) ==
    IF start = end THEN {node}
    ELSE LET mid == (start + end) \div 2 IN
         (IF index <= mid
          THEN SegmentTree_update_accesses(2 * node + 1, start, mid, index)
          ELSE SegmentTree_update_accesses(2 * node + 2, mid + 1, end, index))
             \cup {node, 2 * node + 1, 2 * node + 2}

SegmentTree_update(self, index, new_value) ==
    LET chk == SegmentTree_update_check(self, index, new_value) IN
    IF chk # "ok" THEN Raise(chk, self)
    ELSE Done(SegmentTree_update_recursive(self, 0, 0, self.n - 1,
                                           index.val, new_value.val),
              NoValue)

\* mutant: the order of the bounds is checked before their range
SegmentTree_query_check_order_first(self, left, right) ==
    IF ~(left.type = "int" /\ right.type = "int") THEN "TypeError"
    ELSE IF left.val > right.val THEN "ValueError"
    ELSE IF ~(0 <= left.val /\ left.val < PyLen(self.array))
            \/ ~(0 <= right.val /\ right.val < PyLen(self.array)) THEN "IndexError"
    ELSE "ok"

SegmentTree_query_check(self, left, right) ==
    IF ~(left.type = "int" /\ right.type = "int") THEN "TypeError"
    ELSE IF ~(0 <= left.val /\ left.val < PyLen(self.array))
            \/ ~(0 <= right.val /\ right.val < PyLen(self.array)) THEN "IndexError"
    ELSE IF left.val > right.val THEN "ValueError"
    ELSE "ok"

RECURSIVE SegmentTree_query_recursive(_, _, _, _, _, _)
SegmentTree_query_recursive(self, node, start, end, left, right) ==
    IF right < start \/ end < left THEN Inf
    ELSE IF left <= start /\ end <= right THEN self.tree[node]
    ELSE LET mid == (start + end) \div 2
             q1 == SegmentTree_query_recursive(self, 2 * node + 1, start, mid, left, right)
             q2 == SegmentTree_query_recursive(self, 2 * node + 2, mid + 1, end, left, right)
         IN PyMin(q1, q2)

\* the tree indexes _query_recursive(node, start, end, left, right) reads
RECURSIVE SegmentTree_query_accesses(_, _, _, _, _)
SegmentTree_query_accesses(node, start, end, left, right) ==
    IF right < start \/ end < left THEN {}
    ELSE IF left <= start /\ end <= right THEN {node}
    ELSE LET mid == (start + end) \div 2 IN
         SegmentTree_query_accesses(2 * node + 1, start, mid, left, right)
             \cup SegmentTree_query_accesses(2 * node + 2, mid + 1, end, left, right)

SegmentTree_query(self, left, right) ==
    LET chk == SegmentTree_query_check(self, left, right) IN
    IF chk # "ok" THEN Raise(chk, self)
    ELSE Done(self, Returned(SegmentTree_query_recursive(self, 0, 0, self.n - 1,
                                                         left.val, right.val)))

\* ---------------------------------------------------------- SparseTable
\* ceil(log2(n)) for n >= 1
CeilLog2(n) == CHOOSE k \in 0..n : Pow2(k) >= n /\ (k = 0 \/ Pow2(k - 1) < n)

\* mutant: each entry is one more than the entry before it
RECURSIVE SparseTable_logs_linear(_, _, _)
SparseTable_logs_linear(lt, i, n) ==
    IF i > n THEN lt
    ELSE SparseTable_logs_linear([lt EXCEPT ![i] = lt[i - 1] + 1], i + 1, n)

\* for i in range(2, n + 1): lt[i] = lt[i // 2] + 1
RECURSIVE SparseTable_logs(_, _, _)
SparseTable_logs(lt, i, n) ==
    IF i > n THEN lt
    ELSE SparseTable_logs([lt EXCEPT ![i] = lt[i \div 2] + 1], i + 1, n)

\* the outcome of a build: the table, and whether a store into it raised
\* IndexError (a column j outside the allocated row)
Built(st) == [raised |-> FALSE, st |-> st]
BuildRaised(st) == [raised |-> TRUE, st |-> st]

\* for i in range(n): st[i][0] = array[i]
RECURSIVE SparseTable_level0(_, _, _, _)
SparseTable_level0(st, array, i, n) ==
    IF i >= n THEN Built(st)
    ELSE IF 0 \notin DOMAIN st[i] THEN BuildRaised(st)
    ELSE SparseTable_level0([st EXCEPT ![i][0] = array[i]], array, i + 1, n)

\* j = 1; while (1 << j) <= n: i = 0; while i + (1 << j) <= n: st[i][j] = min(...)
RECURSIVE SparseTable_levels(_, _, _, _)
SparseTable_levels(st, j, i, n) ==
    IF ~(Pow2(j) <= n) THEN Built(st)
    ELSE IF ~(i + Pow2(j) <= n) THEN SparseTable_levels(st, j + 1, 0, n)
    ELSE IF j \notin DOMAIN st[i] THEN BuildRaised(st)
    ELSE SparseTable_levels(
             [st EXCEPT ![i][j] = PyMin(st[i][j - 1], st[i + Pow2(j - 1)][j - 1])],
             j, i + 1, n)

SparseTable_build_sparse_table(st, array, n) ==
    LET l0 == SparseTable_level0(st, array, 0, n) IN
    IF l0.raised THEN l0 ELSE SparseTable_levels(l0.st, 1, 0, n)

SparseTable_init(array) ==
    IF array.type # "list" THEN Raise("TypeError", NoObject)
    ELSE IF PyLen(array.val) = 0 THEN Raise("ValueError", NoObject)
    ELSE LET n == PyLen(array.val)
             lt == SparseTable_logs([i \in 0..n |-> 0], 2, n)
             k == CeilLog2(n)
             st == [i \in 0..(n - 1) |-> [j \in 0..(k - 1) |-> Inf]]
             built == SparseTable_build_sparse_table(st, array.val, n)
         IN IF built.raised THEN Raise("IndexError", NoObject)
            ELSE Done([NoObject EXCEPT
                         !.kind = "SparseTable", !.array = array.val, !.n = n,
                         !.lt = lt, !.st = built.st],
                      NoValue)

SparseTable_update_check(self, index, new_value) ==
    IF index.type # "int" THEN "TypeError"
    ELSE IF new_value.type # "float" THEN "TypeError"
    ELSE IF ~(0 <= index.val /\ index.val < self.n) THEN "IndexError"
    ELSE "ok"

\* mutant: the table is rebuilt before the element is overwritten
SparseTable_update_rebuild_first(self, index, new_value) ==
    LET chk == SparseTable_update_check(self, index, new_value) IN
    IF chk # "ok" THEN Raise(chk, self)
    ELSE LET built == SparseTable_build_sparse_table(self.st, self.array, self.n)
             after == [self EXCEPT !.array[index.val] = new_value.val, !.st = built.st]
         IN IF built.raised THEN Raise("IndexError", after) ELSE Done(after, NoValue)

\* array[index] = new_value; _build_sparse_table()
SparseTable_update(self, index, new_value) ==
    LET chk == SparseTable_update_check(self, index, new_value) IN
    IF chk # "ok" THEN Raise(chk, self)
    ELSE LET array == [self.array EXCEPT ![index.val] = new_value.val]
             built == SparseTable_build_sparse_table(self.st, array, self.n)
             after == [self EXCEPT !.array = array, !.st = built.st]
         IN IF built.raised THEN Raise("IndexError", after) ELSE Done(after, NoValue)

SparseTable_query_check(self, left, right) ==
    IF ~(left.type = "int" /\ right.type = "int") THEN "TypeError"
    ELSE IF ~(0 <= left.val /\ left.val < PyLen(self.array))
            \/ ~(0 <= right.val /\ right.val < PyLen(self.array)) THEN "IndexError"
    ELSE IF left.val > right.val THEN "ValueError"
    ELSE "ok"

\* j = lt[right - left + 1]; min(st[left][j], st[right - (1 << j) + 1][j])
SparseTable_lookup(self, left, right) ==
    LET j == self.lt[right - left + 1] IN
    PyMin(self.st[left][j], self.st[right - Pow2(j) + 1][j])

SparseTable_query(self, left, right) ==
    LET chk == SparseTable_query_check(self, left, right) IN
    IF chk # "ok" THEN Raise(chk, self)
    ELSE Done(self, Returned(SparseTable_lookup(self, left.val, right.val)))

\* ------------------------------------------------------- the four classes
Strategies == {"Naive", "SRD", "SegmentTree", "SparseTable"}

\* rmq_class(array)
Construct(kind, array) ==
    CASE kind = "Naive" -> Naive_init(array)
      [] kind = "SRD" -> SRD_init(array)
      [] kind = "SegmentTree" -> SegmentTree_init(array)
      [] kind = "SparseTable" -> SparseTable_init(array)

\* rmq.update(index, new_value)
Update(self, index, new_value) ==
    CASE self.kind = "Naive" -> Naive_update(self, index, new_value)
      [] self.kind = "SRD" -> SRD_update(self, index, new_value)
      [] self.kind = "SegmentTree" -> SegmentTree_update(self, index, new_value)
      [] self.kind = "SparseTable" -> SparseTable_update(self, index, new_value)

\* rmq.query(left, right)
Query(self, left, right) ==
    CASE self.kind = "Naive" -> Naive_query(self, left, right)
      [] self.kind = "SRD" -> SRD_query(self, left, right)
      [] self.kind = "SegmentTree" -> SegmentTree_query(self, left, right)
      [] self.kind = "SparseTable" -> SparseTable_query(self, left, right)

\* ---------------------------------------------------------- arguments
\* lists of 0..MaxLen floats, and an argument that is not a list
Lists == UNION {[0..(n - 1) -> Values] : n \in 0..MaxLen}
ConstructArgs == {ListArg(l) : l \in Lists} \cup {StrArg}

\* update(index, new_value): every index inside and just outside 0..n-1 with
\* every float, and calls whose index is not an int or whose value is no float
UpdateArgs(n) ==
    {<<IntArg(i), FloatArg(v)>> : i \in -1..n, v \in Values}
        \cup {<<StrArg, FloatArg(0)>>, <<IntArg(0), StrArg>>, <<IntArg(0), IntArg(0)>>}

\* query(left, right): every pair of bounds inside and just outside 0..n-1,
\* and calls with a bound that is not an int
QueryArgs(n) ==
    {<<IntArg(l), IntArg(r)>> : l \in -1..n, r \in -1..n}
        \cup {<<StrArg, IntArg(0)>>, <<IntArg(0), StrArg>>}

\* ---------------------------------------------------------------- state
VARIABLES
    obj,      \* the instance: its attributes ("none": no instance)
    last,     \* the last call: what was called with what, and how it ended
    updated,  \* whether an update has changed the instance since construction
    peer      \* a second instance constructed from the same list object as
              \* obj ("none": there is no such instance)

vars == <<obj, last, updated, peer>>

NoCall ==
    [op |-> "none", kind |-> "none", arg1 |-> StrArg, arg2 |-> StrArg,
     outcome |-> "ok", value |-> NoValue, repeat |-> FALSE]

Call(op, kind, arg1, arg2, res, repeat) ==
    [op |-> op, kind |-> kind, arg1 |-> arg1, arg2 |-> arg2,
     outcome |-> res.outcome, value |-> res.value, repeat |-> repeat]

Init ==
    /\ obj = NoObject
    /\ last = NoCall
    /\ updated = FALSE
    /\ peer = NoObject

\* the same successful update, on the same instance, as the call before
IsRepeat(index, new_value) ==
    /\ last.op = "update"
    /\ last.outcome = "ok"
    /\ last.arg1 = index
    /\ last.arg2 = new_value

\* a constructor call: the instance exists only when __init__ returns
Constructed(kind, array, res) ==
    /\ obj' = res.obj
    /\ last' = Call("construct", kind, array, StrArg, res, FALSE)
    /\ UNCHANGED <<updated, peer>>

\* an update call on the instance
Updated(args, res) ==
    /\ obj' = res.obj
    /\ last' = Call("update", obj.kind, args[1], args[2], res,
                    res.outcome = "ok" /\ IsRepeat(args[1], args[2]))
    /\ updated' = (updated \/ res.outcome = "ok")
    /\ UNCHANGED peer

\* a query call on the instance
Queried(args, res) ==
    /\ obj' = res.obj
    /\ last' = Call("query", obj.kind, args[1], args[2], res, FALSE)
    /\ UNCHANGED <<updated, peer>>

NaiveConstruct ==
    /\ obj.kind = "none"
    /\ \E array \in ConstructArgs : Constructed("Naive", array, Naive_init(array))

NaiveUpdate ==
    /\ obj.kind = "Naive"
    /\ \E args \in UpdateArgs(PyLen(obj.array)) :
         Updated(args, Naive_update(obj, args[1], args[2]))

NaiveQuery ==
    /\ obj.kind = "Naive"
    /\ \E args \in QueryArgs(PyLen(obj.array)) :
         Queried(args, Naive_query(obj, args[1], args[2]))

SRDConstruct ==
    /\ obj.kind = "none"
    /\ \E array \in ConstructArgs : Constructed("SRD", array, SRD_init(array))

SRDUpdate ==
    /\ obj.kind = "SRD"
    /\ \E args \in UpdateArgs(PyLen(obj.array)) :
         Updated(args, SRD_update(obj, args[1], args[2]))

SRDQuery ==
    /\ obj.kind = "SRD"
    /\ \E args \in QueryArgs(PyLen(obj.array)) :
         Queried(args, SRD_query(obj, args[1], args[2]))

SegmentTreeConstruct ==
    /\ obj.kind = "none"
    /\ \E array \in ConstructArgs :
         Constructed("SegmentTree", array, SegmentTree_init(array))

SegmentTreeUpdate ==
    /\ obj.kind = "SegmentTree"
    /\ \E args \in UpdateArgs(PyLen(obj.array)) :
         Updated(args, SegmentTree_update(obj, args[1], args[2]))

SegmentTreeQuery ==
    /\ obj.kind = "SegmentTree"
    /\ \E args \in QueryArgs(PyLen(obj.array)) :
         Queried(args, SegmentTree_query(obj, args[1], args[2]))

SparseTableConstruct ==
    /\ obj.kind = "none"
    /\ \E array \in ConstructArgs :
         Constructed("SparseTable", array, SparseTable_init(array))

SparseTableUpdate ==
    /\ obj.kind = "SparseTable"
    /\ \E args \in UpdateArgs(PyLen(obj.array)) :
         Updated(args, SparseTable_update(obj, args[1], args[2]))

SparseTableQuery ==
    /\ obj.kind = "SparseTable"
    /\ \E args \in QueryArgs(PyLen(obj.array)) :
         Queried(args, SparseTable_query(obj, args[1], args[2]))

Next ==
    \/ NaiveConstruct \/ NaiveUpdate \/ NaiveQuery
    \/ SRDConstruct \/ SRDUpdate \/ SRDQuery
    \/ SegmentTreeConstruct \/ SegmentTreeUpdate \/ SegmentTreeQuery
    \/ SparseTableConstruct \/ SparseTableUpdate \/ SparseTableQuery

Spec == Init /\ [][Next]_vars

\* ------------------------------------- two instances built from one list
\* self.array = array keeps a reference to the caller's list: two instances
\* constructed from the same list object hold the same list, so a store into
\* it by one of them is seen through the other's self.array.
MaxSharedLen == 3

SharedLists == UNION {[0..(n - 1) -> Values] : n \in 1..MaxSharedLen}

\* data = [...]; obj = kind(data); peer = peer_kind(data)
SharedConstruct ==
    /\ obj.kind = "none" /\ peer.kind = "none"
    /\ \E data \in SharedLists, kind \in Strategies, peer_kind \in Strategies :
         LET res == Construct(kind, ListArg(data))
             peer_res == Construct(peer_kind, ListArg(data))
         IN /\ res.outcome = "ok" /\ peer_res.outcome = "ok"
            /\ obj' = res.obj
            /\ peer' = peer_res.obj
            /\ last' = Call("construct", peer_kind, ListArg(data), StrArg, peer_res, FALSE)
    /\ UNCHANGED updated

\* obj.update(index, new_value): the store self.array[index] = new_value goes
\* into the list that peer.array refers to as well
SharedUpdate ==
    /\ obj.kind # "none" /\ peer.kind # "none"
    /\ \E args \in UpdateArgs(PyLen(obj.array)) :
         LET res == Update(obj, args[1], args[2]) IN
         /\ obj' = res.obj
         /\ peer' = [peer EXCEPT !.array = res.obj.array]
         /\ last' = Call("update", obj.kind, args[1], args[2], res,
                         res.outcome = "ok" /\ IsRepeat(args[1], args[2]))
         /\ updated' = (updated \/ res.outcome = "ok")

\* peer.query(left, right)
SharedPeerQuery ==
    /\ obj.kind # "none" /\ peer.kind # "none"
    /\ \E args \in QueryArgs(PyLen(peer.array)) :
         LET res == Query(peer, args[1], args[2]) IN
         /\ peer' = res.obj
         /\ last' = Call("query", peer.kind, args[1], args[2], res, FALSE)
    /\ UNCHANGED <<obj, updated>>

NextShared == SharedConstruct \/ SharedUpdate \/ SharedPeerQuery

SpecShared == Init /\ [][NextShared]_vars

\* ----------------------------------------------------------------- claims
\* the minimum of the elements array[l..r], by definition
MinOver(array, l, r) ==
    CHOOSE m \in {array[i] : i \in l..r} : \A i \in l..r : m <= array[i]

N == PyLen(obj.array)

InRange(i) == 0 <= i /\ i < N

\* the last call was query(l, r) on an instance of the class, 0 <= l <= r < N
ValidQuery(kind) ==
    /\ last.op = "query" /\ last.kind = kind
    /\ last.arg1.type = "int" /\ last.arg2.type = "int"
    /\ InRange(last.arg1.val) /\ InRange(last.arg2.val)
    /\ last.arg1.val <= last.arg2.val

\* the last call returned the minimum of the current array[l..r]
ReturnedMinimum ==
    /\ last.outcome = "ok"
    /\ last.value = Returned(MinOver(obj.array, last.arg1.val, last.arg2.val))

\* the last call constructed from a list of at least one element
ConstructedFromNonEmpty(kind) ==
    /\ last.op = "construct" /\ last.kind = kind
    /\ last.arg1.type = "list" /\ PyLen(last.arg1.val) >= 1

\* C1: an SRD built from any non-empty sequence and updated any number of
\* times (values going up or down) answers every valid query(l, r) with the
\* minimum of the current array[l..r].
C1_SRDQueryReturnsMinimum ==
    /\ ConstructedFromNonEmpty("SRD") => last.outcome = "ok"
    /\ ValidQuery("SRD") => ReturnedMinimum

\* C2: a SegmentTree built from any non-empty sequence and updated any number
\* of times answers every valid query(l, r) with the minimum of the current
\* array[l..r].
C2_SegmentTreeQueryReturnsMinimum ==
    /\ ConstructedFromNonEmpty("SegmentTree") => last.outcome = "ok"
    /\ ValidQuery("SegmentTree") => ReturnedMinimum

\* C2 witness: a query over several elements of a segment tree that an update
\* has changed
C2_Witness ==
    /\ ValidQuery("SegmentTree") /\ updated
    /\ last.arg1.val < last.arg2.val
    /\ last.value # Returned(obj.array[last.arg1.val])

\* C3: a SparseTable built from any non-empty sequence and updated any number
\* of times answers every valid query(l, r) with the minimum of the current
\* array[l..r].
C3_SparseTableQueryReturnsMinimum ==
    /\ ConstructedFromNonEmpty("SparseTable") => last.outcome = "ok"
    /\ ValidQuery("SparseTable") => ReturnedMinimum

\* C4: a Naive built from any non-empty sequence and updated any number of
\* times answers every valid query(l, r) with the minimum of the current
\* array[l..r].
C4_NaiveQueryReturnsMinimum ==
    /\ ConstructedFromNonEmpty("Naive") => last.outcome = "ok"
    /\ ValidQuery("Naive") => ReturnedMinimum

\* C4 witness: a query over several elements of a Naive that an update has
\* changed
C4_Witness ==
    /\ ValidQuery("Naive") /\ updated
    /\ last.arg1.val < last.arg2.val
    /\ last.value # Returned(obj.array[last.arg1.val])

\* what query(l, r) gives on a fresh instance of the class built from the list
FreshQuery(kind, array, l, r) ==
    LET built == Construct(kind, array) IN
    IF built.outcome # "ok" THEN [outcome |-> built.outcome, value |-> NoValue]
    ELSE LET res == Query(built.obj, IntArg(l), IntArg(r)) IN
         [outcome |-> res.outcome, value |-> res.value]

\* C5: for every non-empty sequence (every length N >= 1) and every valid
\* pair left <= right, the four classes built from that sequence all return
\* the same value from query(left, right).
C5_AllStrategiesAgree ==
    (\E kind \in Strategies : ConstructedFromNonEmpty(kind)) =>
        \A l \in 0..(PyLen(last.arg1.val) - 1), r \in 0..(PyLen(last.arg1.val) - 1) :
            l <= r =>
                \A kind \in Strategies :
                    /\ FreshQuery(kind, last.arg1, l, r).outcome = "ok"
                    /\ FreshQuery(kind, last.arg1, l, r)
                         = FreshQuery("Naive", last.arg1, l, r)

\* C6: construction fails only with TypeError (the input is not a list) or
\* ValueError (the list is empty); from every list of length >= 1 it
\* completes and the instance's array equals the input.
C6_ConstructionOutcome ==
    last.op = "construct" =>
        /\ last.arg1.type # "list" => last.outcome = "TypeError"
        /\ (last.arg1.type = "list" /\ PyLen(last.arg1.val) = 0)
               => last.outcome = "ValueError"
        /\ (last.arg1.type = "list" /\ PyLen(last.arg1.val) >= 1)
               => (last.outcome = "ok" /\ obj.kind = last.kind
                   /\ obj.array = last.arg1.val)

\* the last call was a valid update(i, v) that returned
ValidUpdate == last.op = "update" /\ last.outcome = "ok"

\* C7: after a valid update(i, v), query(i, i) returns v, for every class.
C7_UpdateVisible ==
    ValidUpdate =>
        LET res == Query(obj, last.arg1, last.arg1) IN
        res.outcome = "ok" /\ res.value = Returned(last.arg2.val)

\* C7 witness: an update of an SRD that raised the only element of a block
\* above the block's stored minimum
C7_Witness ==
    /\ ValidUpdate /\ last.kind = "SRD"
    /\ obj.block_size = 1
    /\ obj.feed[last.arg1.val] < last.arg2.val

\* C8: applying the same valid update(i, v) a second time leaves the array
\* and every auxiliary array as the first application left them.
C8_UpdateIdempotent ==
    ValidUpdate => Update(obj, last.arg1, last.arg2) = Done(obj, NoValue)

\* C8 witness: the same update was applied twice in a row
C8_Witness == ValidUpdate /\ last.repeat

\* C9: update(i, v) with i outside [0, N) raises IndexError, and query(l, r)
\* raises IndexError whenever a bound is outside [0, N), also when l > r;
\* nothing is returned.
C9_OutOfRangeRejected ==
    /\ (/\ last.op = "update"
        /\ last.arg1.type = "int" /\ last.arg2.type = "float"
        /\ ~InRange(last.arg1.val))
           => (last.outcome = "IndexError" /\ last.value = NoValue)
    /\ (/\ last.op = "query"
        /\ last.arg1.type = "int" /\ last.arg2.type = "int"
        /\ (~InRange(last.arg1.val) \/ ~InRange(last.arg2.val)))
           => (last.outcome = "IndexError" /\ last.value = NoValue)

\* C9 witness: a query with left > right and the right bound negative
C9_Witness ==
    /\ last.op = "query" /\ last.outcome = "IndexError"
    /\ last.arg1.type = "int" /\ last.arg2.type = "int"
    /\ InRange(last.arg1.val) /\ last.arg2.val < 0

\* C10: query(l, r) with both bounds inside [0, N) and l > r raises
\* ValueError and returns nothing, for every class.
C10_InvertedRangeRejected ==
    (/\ last.op = "query"
     /\ last.arg1.type = "int" /\ last.arg2.type = "int"
     /\ InRange(last.arg1.val) /\ InRange(last.arg2.val)
     /\ last.arg1.val > last.arg2.val)
        => (last.outcome = "ValueError" /\ last.value = NoValue)

\* C10 witness: an SRD query with both bounds in range and left > right
C10_Witness ==
    /\ last.op = "query" /\ last.kind = "SRD" /\ last.outcome = "ValueError"
    /\ InRange(last.arg1.val) /\ InRange(last.arg2.val)
    /\ last.arg1.val > last.arg2.val

\* the last call was an update or a query that raised
FailedCall == last.op \in {"update", "query"} /\ last.outcome # "ok"

\* C11: an update or query call that raises TypeError, IndexError or
\* ValueError leaves the array and every auxiliary array (feed, tree, lt, st)
\* as they were before the call, so later queries are answered as if the call
\* had not been made.
C11_FailedCallChangesNothing ==
    [][FailedCall' => obj' = obj]_vars

\* C11 witness: an update with a value that is not a float raised TypeError
\* on an instance whose element at that index differs from the value's payload
C11_Witness ==
    /\ FailedCall /\ last.op = "update" /\ last.outcome = "TypeError"
    /\ last.arg1.type = "int" /\ InRange(last.arg1.val)
    /\ obj.array[last.arg1.val] # last.arg2.val

\* C12: every class built from a one-element list [x] answers query(0, 0)
\* with x, and raises IndexError for every update or query with an index
\* other than 0.
C12_SingleElement ==
    (\E kind \in Strategies :
         ConstructedFromNonEmpty(kind) /\ PyLen(last.arg1.val) = 1) =>
        /\ last.outcome = "ok"
        /\ Query(obj, IntArg(0), IntArg(0)).outcome = "ok"
        /\ Query(obj, IntArg(0), IntArg(0)).value = Returned(last.arg1.val[0])
        /\ \A i \in {-1, 1} :
               /\ Query(obj, IntArg(i), IntArg(0)).outcome = "IndexError"
               /\ Query(obj, IntArg(0), IntArg(i)).outcome = "IndexError"
               /\ \A v \in Values :
                      Update(obj, IntArg(i), FloatArg(v)).outcome = "IndexError"

\* C13: a valid update(i, v) leaves the result of query(l, r) as it was
\* before the update for every valid range [l, r] that does not contain i,
\* for every class.  (An update that leaves every attribute as it was leaves
\* every query as it was: only steps that change the instance need a look.)
C13_UpdateOutsideRange ==
    [][(ValidUpdate' /\ obj' # obj) =>
         LET i == last'.arg1.val
             Outside == {lr \in (DOMAIN obj.array) \X (DOMAIN obj.array) :
                            lr[1] <= lr[2] /\ (i < lr[1] \/ i > lr[2])}
         IN \A lr \in Outside :
                Query(obj', IntArg(lr[1]), IntArg(lr[2])).value
                    = Query(obj, IntArg(lr[1]), IntArg(lr[2])).value]_vars

\* C13 witness: an update of the last of four elements of an SRD to a value
\* below every element of the range [0, 2], which is answered from feed[0]
C13_Witness ==
    /\ ValidUpdate /\ last.kind = "SRD"
    /\ N = 4 /\ last.arg1.val = 3
    /\ last.arg2.val < MinOver(obj.array, 0, 2)

\* C14: an instance's sequence changes only through its own update: when two
\* instances are constructed from the same input list, an update on one
\* leaves the other's array, its auxiliary arrays and so all of its query
\* results unchanged.
C14_PeerUnchangedByUpdate ==
    [][(last'.op = "update" /\ last'.outcome = "ok") => peer' = peer]_vars

\* the minimum of the elements of block b of the instance's array
BlockMin(b) ==
    MinOver(obj.array, b * obj.block_size,
            PyMin((b + 1) * obj.block_size, N) - 1)

\* C15: at every observable point of an SRD instance, block_size is
\* ceil(sqrt(N)), feed has ceil(N / block_size) entries, and feed[b] is the
\* minimum of the elements whose index i has i // block_size = b.
C15_SRDBlockInvariant ==
    obj.kind = "SRD" =>
        /\ obj.block_size = CeilSqrt(N)
        /\ PyLen(obj.feed) = CeilDiv(N, obj.block_size)
        /\ \A b \in DOMAIN obj.feed : obj.feed[b] = BlockMin(b)

\* the node over [start, end] and every node below it hold what C16 says
RECURSIVE NodeHoldsMin(_, _, _)
NodeHoldsMin(node, start, end) ==
    /\ node \in DOMAIN obj.tree
    /\ obj.tree[node] = MinOver(obj.array, start, end)
    /\ IF start = end THEN obj.tree[node] = obj.array[start]
       ELSE LET mid == (start + end) \div 2 IN
            /\ NodeHoldsMin(2 * node + 1, start, mid)
            /\ NodeHoldsMin(2 * node + 2, mid + 1, end)
            /\ obj.tree[node] = PyMin(obj.tree[2 * node + 1], obj.tree[2 * node + 2])

\* C16: at every observable point of a SegmentTree instance (after
\* construction and after every update), every node reached from the root
\* over [start, end] holds min(array[start..end]): a leaf equals array[start]
\* and an internal node equals the min of its two children.
C16_SegmentTreeInvariant ==
    obj.kind = "SegmentTree" => NodeHoldsMin(0, 0, N - 1)

\* C16 witness: an update of the last of four leaves gave the tree a new,
\* lower root
C16_Witness ==
    /\ ValidUpdate /\ last.kind = "SegmentTree"
    /\ N = 4 /\ last.arg1.val = 3
    /\ last.arg2.val < MinOver(obj.array, 0, 2)
    /\ obj.tree[0] = last.arg2.val

\* floor(log2(n)) for n >= 1
FloorLog2(n) == CHOOSE k \in 0..n : Pow2(k) <= n /\ n < Pow2(k + 1)

\* every st[i][j] the claim names is allocated and holds the minimum of the
\* 2^j elements from i
TableHoldsMinima ==
    \A j \in 0..FloorLog2(N) : \A i \in 0..(N - Pow2(j)) :
        /\ j \in DOMAIN obj.st[i]
        /\ obj.st[i][j] = MinOver(obj.array, i, i + Pow2(j) - 1)

\* C17: a SparseTable is constructed from every non-empty sequence, and after
\* construction and after every valid update st[i][j] exists and equals
\* min(array[i .. i + 2^j - 1]) for every j in 0..floor(log2(N)) and every i
\* with i + 2^j <= N; the instance after an update is the instance a fresh
\* construction from the updated sequence gives.
C17_SparseTableInvariant ==
    /\ ConstructedFromNonEmpty("SparseTable") => last.outcome = "ok"
    /\ obj.kind = "SparseTable" =>
           /\ TableHoldsMinima
           /\ obj = SparseTable_init(ListArg(obj.array)).obj

\* the nodes reached from node over [start, end], each with its range
RECURSIVE TreeNodes(_, _, _)
TreeNodes(node, start, end) ==
    IF start = end THEN {<<node, start, end>>}
    ELSE LET mid == (start + end) \div 2 IN
         {<<node, start, end>>} \cup TreeNodes(2 * node + 1, start, mid)
                                \cup TreeNodes(2 * node + 2, mid + 1, end)

\* the nodes whose range contains index: the root-to-leaf path of index
PathTo(index) ==
    {t[1] : t \in {t \in TreeNodes(0, 0, N - 1) : t[2] <= index /\ index <= t[3]}}

\* C18: a valid update(index, v) of a SegmentTree writes only array[index] and
\* the tree entries of the nodes whose range contains index; every other
\* array element, every other tree entry (unused slots included) and every
\* other attribute is as before. Stated of every valid update of every
\* reachable instance.
C18_SegmentTreeUpdateFrame ==
    obj.kind = "SegmentTree" =>
        \A index \in DOMAIN obj.array : \A v \in Values :
            LET res == SegmentTree_update(obj, IntArg(index), FloatArg(v)) IN
            /\ res.outcome = "ok"
            /\ DOMAIN res.obj.array = DOMAIN obj.array
            /\ \A k \in DOMAIN obj.array \ {index} : res.obj.array[k] = obj.array[k]
            /\ DOMAIN res.obj.tree = DOMAIN obj.tree
            /\ \A node \in DOMAIN obj.tree \ PathTo(index) :
                   res.obj.tree[node] = obj.tree[node]
            /\ [res.obj EXCEPT !.array = obj.array, !.tree = obj.tree] = obj

\* C18 witness: an update of the second of four elements changed the root,
\* while nodes off its path hold other values
C18_Witness ==
    /\ ValidUpdate /\ last.kind = "SegmentTree"
    /\ N = 4 /\ last.arg1.val = 1
    /\ obj.tree[0] = last.arg2.val
    /\ obj.tree[2] # obj.tree[0]
    /\ PathTo(1) = {0, 1, 4}

\* C19: for every N >= 1 the construction of a SegmentTree succeeds within
\* its allocation of 4 * N slots, and every tree index read or written by the
\* construction, by any valid update and by any valid query lies in
\* 0 .. 4 * N - 1.
C19_SegmentTreeIndexSafety ==
    /\ ConstructedFromNonEmpty("SegmentTree") => last.outcome = "ok"
    /\ obj.kind = "SegmentTree" =>
           LET Slots == 0..(4 * N - 1) IN
           /\ DOMAIN obj.tree = Slots
           /\ SegmentTree_construct_accesses(0, 0, N - 1) \subseteq Slots
           /\ \A index \in DOMAIN obj.array :
                  SegmentTree_update_accesses(0, 0, N - 1, index) \subseteq Slots
           /\ \A left \in DOMAIN obj.array : \A right \in left..(N - 1) :
                  SegmentTree_query_accesses(0, 0, N - 1, left, right) \subseteq Slots

\* C19 witness: a tree of four elements was built; its deepest leaves are the
\* nodes 3 to 6
C19_Witness ==
    /\ ConstructedFromNonEmpty("SegmentTree") /\ last.outcome = "ok"
    /\ N = 4
    /\ SegmentTree_construct_accesses(0, 0, N - 1) = 0..6
    /\ SegmentTree_query_accesses(0, 0, N - 1, 1, 2) = {4, 5}

\* lt holds floor(log2(k)) for k in 1..n, and for every 0 <= left <= right < n
\* the level j = lt[right - left + 1] gives two ranges of length 2^j inside
\* [left, right] that cover it
Decomposes(lt, n) ==
    /\ \A k \in 1..n : lt[k] = FloorLog2(k)
    /\ \A left \in 0..(n - 1) : \A right \in left..(n - 1) :
           LET len == right - left + 1
               j == lt[len]
           IN /\ Pow2(j) <= len /\ len < Pow2(j + 1)
              /\ left + Pow2(j) - 1 <= right
              /\ left <= right - Pow2(j) + 1
              /\ \A x \in left..right :
                     x <= left + Pow2(j) - 1 \/ right - Pow2(j) + 1 <= x

\* C20: the lt array a SparseTable constructor computes for a list of N
\* elements has lt[k] = floor(log2(k)) for k in 1..N, and so has the lt of
\* every instance; for every valid query the level j = lt[len] satisfies
\* 2^j <= len < 2^(j+1), and [left, left + 2^j - 1] and
\* [right - 2^j + 1, right] lie inside [left, right] and cover it.
C20_SparseTableDecomposition ==
    /\ ConstructedFromNonEmpty("SparseTable") =>
           LET n == PyLen(last.arg1.val) IN
           Decomposes(SparseTable_logs([i \in 0..n |-> 0], 2, n), n)
    /\ obj.kind = "SparseTable" => Decomposes(obj.lt, N)

\* C20 witness: a query over three elements was answered from the two
\* overlapping ranges of length two
C20_Witness ==
    /\ ValidQuery("SparseTable") /\ last.outcome = "ok"
    /\ last.arg2.val - last.arg1.val + 1 = 3
    /\ obj.lt[3] = 1
    /\ last.value = Returned(PyMin(obj.st[last.arg1.val][1], obj.st[last.arg2.val - 1][1]))

\* C21: in every state of an SRD instance (construction followed by any
\* updates) each feed[b] is at most the minimum of the current elements of
\* block b, and every valid query(l, r) returns a value that is at most the
\* minimum of the current array[l..r].
C21_SRDNeverOverestimates ==
    obj.kind = "SRD" =>
        /\ \A b \in DOMAIN obj.feed : obj.feed[b] <= BlockMin(b)
        /\ \A left \in DOMAIN obj.array : \A right \in left..(N - 1) :
               LET res == SRD_query(obj, IntArg(left), IntArg(right)) IN
               /\ res.outcome = "ok"
               /\ \E v \in 0..Inf : /\ res.value = Returned(v)
                                    /\ v <= MinOver(obj.array, left, right)
        /\ ValidQuery("SRD") =>
               last.value = SRD_query(obj, last.arg1, last.arg2).value

\* C21 witness: after updates, a query over several elements of four was
\* answered with a value below the minimum of the range
C21_Witness ==
    /\ ValidQuery("SRD") /\ last.outcome = "ok" /\ updated
    /\ N = 4 /\ last.arg1.val < last.arg2.val
    /\ \E v \in 0..Inf : /\ last.value = Returned(v)
                         /\ v < MinOver(obj.array, last.arg1.val, last.arg2.val)

====
